---------------------------- MODULE Spec2Model ----------------------------
(***************************************************************************)
(* The Exoscale kubeconfig store of kubeswitch                              *)
(* (pkg/store/kubeconfig_store_exoscale.go): StartSearch, which lists the   *)
(* zones of an account and the SKS clusters of each zone, records them in   *)
(* the DiscoveredClusters map and publishes one path per cluster on a       *)
(* channel, and GetKubeconfigForPath, which resolves such a path against    *)
(* the map, asks the provider for a kubeconfig and renames its cluster,     *)
(* context and current-context.                                             *)
(*                                                                          *)
(* Strings the code takes apart or compares (zone names, cluster names,     *)
(* paths, kubeconfig keys) are sequences of one-character strings, so that  *)
(* fmt.Sprintf("%s/%s") and strings.SplitN are computed, not assumed.       *)
(***************************************************************************)
EXTENDS Integers, Sequences, FiniteSets, TLC

VARIABLES
    DiscoveredClusters, \* s.DiscoveredClusters: map[v3.UUID]ExoscaleKube
    dpc,                \* where StartSearch is: idle, sendErr, zone, insert, send, done, crashed
    zonesResp,          \* what s.Client.ListZones returned in this pass
    listed,             \* what ListSKSClusters returned for the zones visited so far
    ci,                 \* position of the inner loop in the current zone's clusters
    sent,               \* the SearchResults this pass has sent on the channel
    reading,            \* whether the host still receives from the channel
    index0,             \* DiscoveredClusters as it was when this pass began
    replay,             \* the provider's answers of the previous pass, when it repeats them
    rpc,                \* where GetKubeconfigForPath is: idle, scanning, generate, returned, crashed
    rpath,              \* its path argument
    received,           \* whether the pass had sent that path when the call was made
    raced,              \* whether StartSearch wrote the map while the lookup loop ran
    match,              \* the ExoscaleKube the lookup loop matched
    request,            \* the kubeconfig request this call made of the provider
    result,             \* what the call returned: an error and the kubeconfig bytes
    wpc,                \* where the renaming of lines 233-261 is, run on its own
    cfg,                \* the *api.Config being renamed
    cfg0,               \* that config as clientcmd.Load returned it
    clusterName,        \* the name the renaming moves to (second path segment)
    oldClusterName,     \* the key the renaming moves from
    written             \* the configs earlier renamings of the same payload ended with

discoverVars == <<DiscoveredClusters, dpc, zonesResp, listed, ci, sent, reading, index0, replay>>

resolveVars == <<rpc, rpath, received, raced, match, request, result>>

renameVars == <<wpc, cfg, cfg0, clusterName, oldClusterName, written>>

vars == <<discoverVars, resolveVars, renameVars>>

-----------------------------------------------------------------------------
(* Bounds and the provider's universe *)

\* longest list of clusters one zone returns
MaxClusters == 2

Slash == "/"

Nil == "nil"

\* v3.Zone: Name and APIEndpoint
ZoneY == [Name |-> <<"y">>, APIEndpoint |-> "https://api-y"]

ZoneZ == [Name |-> <<"z">>, APIEndpoint |-> "https://api-z"]

\* the zone lists ListZones may return (none, one, both in either order)
ZoneLists == {<<>>, <<ZoneY>>, <<ZoneY, ZoneZ>>, <<ZoneZ, ZoneY>>}

ClusterNames == {<<"a">>, <<"b">>}

\* the cluster UUIDs that exist behind each endpoint (a UUID belongs to one zone)
ClusterIDs(endpoint) == IF endpoint = ZoneY.APIEndpoint THEN {1, 2} ELSE {3}

\* the names the clusters behind each endpoint may bear: "a" occurs in both zones
NamesIn(endpoint) == IF endpoint = ZoneY.APIEndpoint THEN ClusterNames ELSE {<<"a">>}

\* v3.SKSCluster, as far as the store reads it: ID and Name
Summaries(endpoint) == [ID : ClusterIDs(endpoint), Name : NamesIn(endpoint)]

SeqsUpTo(S, n) == UNION {[1..k -> S] : k \in 0..n}

\* the lists ListSKSClusters may return for an endpoint: no UUID twice
ClusterLists(endpoint) ==
    {cs \in SeqsUpTo(Summaries(endpoint), MaxClusters) :
        \A i, j \in 1..Len(cs) : cs[i].ID = cs[j].ID => i = j}

-----------------------------------------------------------------------------
(* StartSearch *)

\* a ZonesErrorResult whose Error field was left unset
ZonesErrorResultUnset == [KubeconfigPath |-> <<>>, Error |-> Nil]

\* the SearchResult sent when ListZones fails
ZonesErrorResult == [KubeconfigPath |-> <<>>, Error |-> "failed to list zones"]

\* fmt.Sprintf("%s/%s", zone.Name, cluster.Name)
KubeconfigPath(zone, cluster) == zone.Name \o <<Slash>> \o cluster.Name

\* the SearchResult sent for a discovered cluster
PathResult(zone, cluster) == [KubeconfigPath |-> KubeconfigPath(zone, cluster), Error |-> Nil]

\* an InsertCluster that keeps the entry an id already has
InsertClusterIfAbsent(idx, zone, cluster) ==
    idx @@ (cluster.ID :> [ID |-> cluster.ID, Name |-> cluster.Name,
                           ZoneName |-> zone.Name, ZoneEndpoint |-> zone.APIEndpoint])

\* an InsertCluster that appends under a fresh key instead of the cluster's id
InsertClusterAppend(idx, zone, cluster) ==
    ((Cardinality(DOMAIN idx) + 1) :>
        [ID |-> cluster.ID, Name |-> cluster.Name,
         ZoneName |-> zone.Name, ZoneEndpoint |-> zone.APIEndpoint]) @@ idx

\* an InsertCluster that first drops what the map holds of the cluster's zone
\* under other ids
InsertClusterRefreshing(idx, zone, cluster) ==
    (cluster.ID :> [ID |-> cluster.ID, Name |-> cluster.Name,
                    ZoneName |-> zone.Name, ZoneEndpoint |-> zone.APIEndpoint])
    @@ [id \in {x \in DOMAIN idx : idx[x].ZoneName # zone.Name} |-> idx[id]]

\* s.DiscoveredClusters[cluster.ID] = ExoscaleKube{...}
InsertCluster(idx, zone, cluster) ==
    (cluster.ID :> [ID |-> cluster.ID, Name |-> cluster.Name,
                    ZoneName |-> zone.Name, ZoneEndpoint |-> zone.APIEndpoint]) @@ idx

\* the zone and the cluster the loops are at
CurZone == zonesResp.Zones[Len(listed)]

\* a CurCluster that walks the zone's clusters from the last to the first
CurClusterFromEnd ==
    listed[Len(listed)].SKSClusters[Len(listed[Len(listed)].SKSClusters) + 1 - ci]

CurCluster == listed[Len(listed)].SKSClusters[ci]

\* what ListZones may answer: the zones, or an error
ZonesResponses ==
    {[ok |-> TRUE, Zones |-> zs] : zs \in ZoneLists} \cup {[ok |-> FALSE, Zones |-> <<>>]}

\* what ListSKSClusters may answer for an endpoint: the clusters, or an error
ClustersResponses(endpoint) ==
    {[ok |-> TRUE, SKSClusters |-> cs] : cs \in ClusterLists(endpoint)}
        \cup {[ok |-> FALSE, SKSClusters |-> <<>>]}

\* the paths among a sequence of SearchResults
PathsOf(results) == {results[i].KubeconfigPath : i \in {j \in 1..Len(results) : results[j].Error = Nil}}

-----------------------------------------------------------------------------
(* GetKubeconfigForPath: the path, the lookup, the request *)

\* the position of the first "/" of a path, 0 when there is none
FirstSlash(path) ==
    IF \E i \in 1..Len(path) : path[i] = Slash
      THEN CHOOSE i \in 1..Len(path) :
               path[i] = Slash /\ \A j \in 1..(i - 1) : path[j] # Slash
      ELSE 0

\* a split that pads a path without "/" to two parts
SplitN2Padded(path) ==
    IF FirstSlash(path) = 0 THEN <<path, <<>>>>
    ELSE <<SubSeq(path, 1, FirstSlash(path) - 1),
           SubSeq(path, FirstSlash(path) + 1, Len(path))>>

\* strings.SplitN(path, "/", 2)
SplitN2(path) ==
    IF FirstSlash(path) = 0 THEN <<path>>
    ELSE <<SubSeq(path, 1, FirstSlash(path) - 1),
           SubSeq(path, FirstSlash(path) + 1, Len(path))>>

\* a lookup that compares the cluster name alone
MatchingByName(idx, zoneName, name) == {id \in DOMAIN idx : idx[id].Name = name}

\* lines 187-192: the keys of the entries the loop can stop at (Go ranges over
\* a map in no fixed order, so it stops at any entry that matches)
Matching(idx, zoneName, name) ==
    {id \in DOMAIN idx : idx[id].ZoneName = zoneName /\ idx[id].Name = name}

NoMatch == [ID |-> 0, Name |-> <<>>, ZoneName |-> <<>>, ZoneEndpoint |-> ""]

\* no request made
NoRequest == [Endpoint |-> "", ID |-> 0, Groups |-> <<>>, User |-> "", Ttl |-> 0]

\* lines 198-207: the request for the matched cluster, sent to its zone's endpoint
KubeconfigRequest(m) ==
    [Endpoint |-> m.ZoneEndpoint, ID |-> m.ID,
     Groups |-> <<"system:masters">>, User |-> "default", Ttl |-> 2592000]

-----------------------------------------------------------------------------
(* The kubeconfig: api.Config, its bytes, and the renaming of lines 233-261 *)

\* a map with one key removed: delete(m, k)
Delete(m, k) == [x \in DOMAIN m \ {k} |-> m[x]]

\* a map with one key set: m[k] = v
Put(m, k, v) == (k :> v) @@ m

NoConfig == [Clusters |-> << >>, Contexts |-> << >>, AuthInfos |-> << >>, CurrentContext |-> <<>>]

\* no kubeconfig bytes (a nil slice)
NoBytes == [fmt |-> "none", Config |-> NoConfig]

\* clientcmd.Write: the YAML bytes of a config
Write(c) == [fmt |-> "yaml", Config |-> c]

\* lines 233-238: the keys the range over cfg.Clusters can stop at; "" when
\* there is none
OldNames(c) == IF DOMAIN c.Clusters = {} THEN {<<>>} ELSE DOMAIN c.Clusters

\* lines 241-244: the cluster entry is put under the new key and the old key deleted
MoveCluster(c, old, new) ==
    IF old \in DOMAIN c.Clusters
      THEN [c EXCEPT !.Clusters = Delete(Put(c.Clusters, new, c.Clusters[old]), old)]
      ELSE c

\* lines 247-256: the context entry is pointed at the new cluster name, put
\* under the new key and the old key deleted
MoveContext(c, old, new) ==
    IF old \in DOMAIN c.Contexts
      THEN [c EXCEPT !.Contexts =
                Delete(Put(c.Contexts, new, [c.Contexts[old] EXCEPT !.Cluster = new]), old)]
      ELSE c

\* lines 259-261: current-context follows the rename
RenameCurrent(c, old, new) ==
    IF c.CurrentContext = old THEN [c EXCEPT !.CurrentContext = new] ELSE c

\* lines 241-261 in one
Rename(c, old, new) == RenameCurrent(MoveContext(MoveCluster(c, old, new), old, new), old, new)

\* the keys a provider kubeconfig uses: the cluster's UUID, or a plain name
Keys == {<<"u">>, <<"a">>}

\* every map from some of the keys K to values in V
Maps(K, V) == UNION {[D -> V] : D \in SUBSET K}

\* the configs clientcmd.Load may return
Configs ==
    [Clusters : Maps(Keys, {"server1", "server2"}),
     Contexts : Maps(Keys, [Cluster : Keys, AuthInfo : {<<"d">>}]),
     AuthInfos : {(<<"d">> :> "token")},
     CurrentContext : Keys \cup {<<>>}]

\* the provider's convention: one cluster, one context and current-context, all
\* under the same key
Conventional(k) ==
    [Clusters |-> (k :> "server1"),
     Contexts |-> (k :> [Cluster |-> k, AuthInfo |-> <<"d">>]),
     AuthInfos |-> (<<"d">> :> "token"),
     CurrentContext |-> k]

\* resp.Kubeconfig: base64 of YAML of a config, or not
Payload(c) == [enc |-> "base64", raw |-> Write(c)]

BadBase64 == [enc |-> "invalid", raw |-> NoBytes]

BadYaml == [enc |-> "base64", raw |-> [fmt |-> "invalid", Config |-> NoConfig]]

\* the payloads GenerateSKSClusterKubeconfig may return to a running store
Payloads == {Payload(Conventional(k)) : k \in Keys} \cup {BadBase64, BadYaml}

\* the paths GetKubeconfigForPath is called with: those StartSearch can send,
\* one without a separator, one with two
Paths ==
    UNION {{KubeconfigPath(z, [Name |-> n]) : n \in NamesIn(z.APIEndpoint)} : z \in {ZoneY, ZoneZ}}
        \cup {<<"y">>, <<"y", Slash, "a", Slash, "b">>}

\* the two segments of the path being resolved
ZoneSegment == SplitN2(rpath)[1]

NameSegment == SplitN2(rpath)[2]

Error(kind) == [err |-> kind, bytes |-> NoBytes]

NoReplay == [on |-> FALSE, zonesResp |-> [ok |-> TRUE, Zones |-> <<>>], listed |-> <<>>, paths |-> {}]

\* the provider repeating the finished pass answer by answer
ReplayOfLast == [on |-> TRUE, zonesResp |-> zonesResp, listed |-> listed, paths |-> PathsOf(sent)]

InitStore ==
    /\ DiscoveredClusters = << >>
    /\ dpc = "idle"
    /\ zonesResp = [ok |-> TRUE, Zones |-> <<>>]
    /\ listed = <<>>
    /\ ci = 0
    /\ sent = <<>>
    /\ reading = TRUE
    /\ index0 = << >>
    /\ replay = NoReplay
    /\ rpc = "idle"
    /\ rpath = <<>>
    /\ received = FALSE
    /\ raced = FALSE
    /\ match = NoMatch
    /\ request = NoRequest
    /\ result = Error(Nil)

Init ==
    /\ InitStore
    /\ wpc = "off"
    /\ cfg = NoConfig
    /\ cfg0 = NoConfig
    /\ clusterName = <<>>
    /\ oldClusterName = <<>>
    /\ written = <<>>

\* StartSearch is called; a pass begins: the provider data is either free or
\* that of the pass before
BeginPass ==
    /\ dpc \in {"idle", "done"}
    /\ replay' \in {NoReplay} \cup (IF dpc = "done" THEN {ReplayOfLast} ELSE {})
    /\ index0' = IF replay'.on THEN DiscoveredClusters ELSE << >>
    /\ listed' = <<>>
    /\ ci' = 0
    /\ sent' = <<>>
    /\ UNCHANGED <<DiscoveredClusters, reading, resolveVars, renameVars>>

\* lines 121-128: ListZones fails
ListZonesFail ==
    /\ BeginPass
    /\ zonesResp' = [ok |-> FALSE, Zones |-> <<>>]
    /\ replay'.on => zonesResp' = replay'.zonesResp
    /\ dpc' = "sendErr"

\* lines 123-127: the error event is sent and the pass returns
SendZonesError ==
    /\ dpc = "sendErr"
    /\ reading
    /\ sent' = Append(sent, ZonesErrorResult)
    /\ dpc' = "done"
    /\ UNCHANGED <<DiscoveredClusters, zonesResp, listed, ci, reading, index0, replay>>
    /\ UNCHANGED <<resolveVars, renameVars>>

\* lines 129-132: ListZones returns no zone and the pass returns
ListZonesEmpty ==
    /\ BeginPass
    /\ zonesResp' = [ok |-> TRUE, Zones |-> <<>>]
    /\ replay'.on => zonesResp' = replay'.zonesResp
    /\ dpc' = "done"

\* lines 121, 135: ListZones returns zones and the loop over them begins
ListZonesFound ==
    /\ BeginPass
    /\ \E r \in ZonesResponses :
        /\ r.ok /\ Len(r.Zones) > 0
        /\ zonesResp' = r
    /\ replay'.on => zonesResp' = replay'.zonesResp
    /\ dpc' = "zone"

\* where the outer loop goes once n zones are behind it
AfterZone(n) == IF n = Len(zonesResp.Zones) THEN "done" ELSE "zone"

\* the zone the outer loop turns to next
NextZone == zonesResp.Zones[Len(listed) + 1]

\* the answers ListSKSClusters may give for the next zone
NextAnswers ==
    IF replay.on THEN {replay.listed[Len(listed) + 1]}
    ELSE ClustersResponses(NextZone.APIEndpoint)

\* a ListClustersFail that returns from StartSearch instead of continuing
ListClustersFailReturns ==
    /\ dpc = "zone"
    /\ \E r \in NextAnswers :
        /\ ~r.ok
        /\ listed' = Append(listed, r)
    /\ dpc' = "done"
    /\ UNCHANGED <<DiscoveredClusters, zonesResp, ci, sent, reading, index0, replay>>
    /\ UNCHANGED <<resolveVars, renameVars>>

\* lines 138-143: a zone's listing fails; it is logged and the loop continues
ListClustersFail ==
    /\ dpc = "zone"
    /\ \E r \in NextAnswers :
        /\ ~r.ok
        /\ listed' = Append(listed, r)
    /\ dpc' = AfterZone(Len(listed) + 1)
    /\ UNCHANGED <<DiscoveredClusters, zonesResp, ci, sent, reading, index0, replay>>
    /\ UNCHANGED <<resolveVars, renameVars>>

\* lines 145-148: a zone has no clusters; the loop continues
ListClustersEmpty ==
    /\ dpc = "zone"
    /\ \E r \in NextAnswers :
        /\ r.ok /\ Len(r.SKSClusters) = 0
        /\ listed' = Append(listed, r)
    /\ dpc' = AfterZone(Len(listed) + 1)
    /\ UNCHANGED <<DiscoveredClusters, zonesResp, ci, sent, reading, index0, replay>>
    /\ UNCHANGED <<resolveVars, renameVars>>

\* lines 138, 150: a zone has clusters; the inner loop begins
ListClustersFound ==
    /\ dpc = "zone"
    /\ \E r \in NextAnswers :
        /\ r.ok /\ Len(r.SKSClusters) > 0
        /\ listed' = Append(listed, r)
    /\ ci' = 1
    /\ dpc' = "insert"
    /\ UNCHANGED <<DiscoveredClusters, zonesResp, sent, reading, index0, replay>>
    /\ UNCHANGED <<resolveVars, renameVars>>

\* lines 152-157: the cluster is recorded in the map
RecordCluster ==
    /\ dpc = "insert"
    /\ DiscoveredClusters' = InsertCluster(DiscoveredClusters, CurZone, CurCluster)
    /\ dpc' = "send"
    /\ raced' = (raced \/ rpc = "scanning")
    /\ UNCHANGED <<zonesResp, listed, ci, sent, reading, index0, replay>>
    /\ UNCHANGED <<rpc, rpath, received, match, request, result, renameVars>>

\* lines 163-170: the path is sent; the inner loop goes on, or the outer one
SendPath ==
    /\ dpc = "send"
    /\ reading
    /\ sent' = Append(sent, PathResult(CurZone, CurCluster))
    /\ IF ci < Len(listed[Len(listed)].SKSClusters)
         THEN ci' = ci + 1 /\ dpc' = "insert"
         ELSE ci' = 0 /\ dpc' = AfterZone(Len(listed))
    /\ UNCHANGED <<DiscoveredClusters, zonesResp, listed, reading, index0, replay>>
    /\ UNCHANGED <<resolveVars, renameVars>>

\* the host stops receiving while StartSearch waits to send
HostStopsReading ==
    /\ dpc \in {"send", "sendErr"}
    /\ reading
    /\ reading' = FALSE
    /\ UNCHANGED <<DiscoveredClusters, dpc, zonesResp, listed, ci, sent, index0, replay>>
    /\ UNCHANGED <<resolveVars, renameVars>>

\* base64.StdEncoding.DecodeString succeeds
Decodes(payload) == payload.enc = "base64"

\* clientcmd.Load succeeds on the decoded bytes
Loads(payload) == Decodes(payload) /\ payload.raw.fmt = "yaml"

\* lines 178-181: the path has no "/"; an error is returned at once
ResolveMalformed ==
    /\ rpc \in {"idle", "returned"}
    /\ \E p \in Paths :
        /\ Len(SplitN2(p)) # 2
        /\ rpath' = p
    /\ received' = FALSE
    /\ result' = Error("invalid cluster path")
    /\ rpc' = "returned"
    /\ raced' = FALSE
    /\ match' = NoMatch
    /\ request' = NoRequest
    /\ UNCHANGED <<discoverVars, renameVars>>

\* lines 178-187: the path splits in two and the loop over the map begins
ResolveBeginScan ==
    /\ rpc \in {"idle", "returned"}
    /\ \E p \in Paths :
        /\ Len(SplitN2(p)) = 2
        /\ rpath' = p
        /\ received' = (p \in PathsOf(sent))
    /\ result' = Error(Nil)
    /\ rpc' = "scanning"
    /\ raced' = FALSE
    /\ match' = NoMatch
    /\ request' = NoRequest
    /\ UNCHANGED <<discoverVars, renameVars>>

\* lines 187-195: the loop ends without a match, because no entry matches or
\* because the map was written while the loop ran over it: the two are not
\* synchronised, and a loop over a map that is written meanwhile may miss
\* entries of it
ScanNoMatch ==
    /\ rpc = "scanning"
    /\ Matching(DiscoveredClusters, ZoneSegment, NameSegment) = {} \/ raced
    /\ result' = Error("no cluster found")
    /\ rpc' = "returned"
    /\ received' = FALSE
    /\ raced' = FALSE
    /\ UNCHANGED <<rpath, match, request, discoverVars, renameVars>>

\* a ScanMatch that takes the matched entry out of the map
ScanMatchTakes ==
    /\ rpc = "scanning"
    /\ \E id \in Matching(DiscoveredClusters, ZoneSegment, NameSegment) :
         /\ match' = DiscoveredClusters[id]
         /\ DiscoveredClusters' = Delete(DiscoveredClusters, id)
    /\ rpc' = "generate"
    /\ received' = FALSE
    /\ raced' = FALSE
    /\ UNCHANGED <<dpc, zonesResp, listed, ci, sent, reading, index0, replay>>
    /\ UNCHANGED <<rpath, request, result, renameVars>>

\* lines 187-192: the loop stops at an entry that matches
ScanMatch ==
    /\ rpc = "scanning"
    /\ \E id \in Matching(DiscoveredClusters, ZoneSegment, NameSegment) :
         match' = DiscoveredClusters[id]
    /\ rpc' = "generate"
    /\ received' = FALSE
    /\ raced' = FALSE
    /\ UNCHANGED <<rpath, request, result, discoverVars, renameVars>>

\* the Go runtime finds the map written while it is iterated and ends the
\* process ("fatal error: concurrent map iteration and map write")
ScanCrash ==
    /\ rpc = "scanning"
    /\ raced
    /\ rpc' = "crashed"
    /\ dpc' = "crashed"
    /\ UNCHANGED <<DiscoveredClusters, zonesResp, listed, ci, sent, reading, index0, replay>>
    /\ UNCHANGED <<rpath, received, raced, match, request, result, renameVars>>

\* lines 198-207: the request is made of the matched cluster's zone
Generate ==
    /\ rpc = "generate"
    /\ request' = KubeconfigRequest(match)
    /\ rpc' = "returned"
    /\ match' = NoMatch
    /\ UNCHANGED <<rpath, received, raced, discoverVars, renameVars>>

\* lines 207-210: the provider fails
GenerateFails ==
    /\ Generate
    /\ result' = Error("failed to generate kubeconfig")

\* lines 213-216: the payload is no base64
DecodeFails ==
    /\ Generate
    /\ \E p \in Payloads : ~Decodes(p)
    /\ result' = Error("failed to decode base64 kubeconfig")

\* lines 223-226: the bytes are no kubeconfig
ParseFails ==
    /\ Generate
    /\ \E p \in Payloads : Decodes(p) /\ ~Loads(p)
    /\ result' = Error("parse kubeconfig")

\* lines 233-267: the config is renamed and clientcmd.Write fails
WriteFails ==
    /\ Generate
    /\ \E p \in Payloads : Loads(p)
    /\ result' = Error("marshal updated kubeconfig")

\* lines 233-269: the config is renamed, written and returned
ReturnKubeconfig ==
    /\ Generate
    /\ \E p \in Payloads :
        /\ Loads(p)
        /\ \E old \in OldNames(p.raw.Config) :
             result' = [err |-> Nil, bytes |-> Write(Rename(p.raw.Config, old, NameSegment))]

\* StartSearch and GetKubeconfigForPath run side by side on one store
Next ==
    \/ ListZonesFail
    \/ SendZonesError
    \/ ListZonesEmpty
    \/ ListZonesFound
    \/ ListClustersFail
    \/ ListClustersEmpty
    \/ ListClustersFound
    \/ RecordCluster
    \/ SendPath
    \/ HostStopsReading
    \/ ResolveMalformed
    \/ ResolveBeginScan
    \/ ScanNoMatch
    \/ ScanMatch
    \/ ScanCrash
    \/ GenerateFails
    \/ DecodeFails
    \/ ParseFails
    \/ WriteFails
    \/ ReturnKubeconfig

Spec == Init /\ [][Next]_vars

-----------------------------------------------------------------------------
(* Lines 233-261 on their own, over every config and every target name *)

InitRename ==
    /\ InitStore
    /\ wpc = "pick"
    /\ cfg \in Configs
    /\ cfg0 = cfg
    /\ clusterName \in ClusterNames \cup Keys
    /\ oldClusterName = <<>>
    /\ written = <<>>

\* lines 233-238
PickOldName ==
    /\ wpc = "pick"
    /\ oldClusterName' \in OldNames(cfg)
    /\ wpc' = "cluster"
    /\ UNCHANGED <<cfg, cfg0, clusterName, written, discoverVars, resolveVars>>

\* lines 241-244
MoveClusterEntry ==
    /\ wpc = "cluster"
    /\ cfg' = MoveCluster(cfg, oldClusterName, clusterName)
    /\ wpc' = "context"
    /\ UNCHANGED <<cfg0, clusterName, oldClusterName, written, discoverVars, resolveVars>>

\* lines 247-256
MoveContextEntry ==
    /\ wpc = "context"
    /\ cfg' = MoveContext(cfg, oldClusterName, clusterName)
    /\ wpc' = "current"
    /\ UNCHANGED <<cfg0, clusterName, oldClusterName, written, discoverVars, resolveVars>>

\* lines 259-261
RenameCurrentContext ==
    /\ wpc = "current"
    /\ cfg' = RenameCurrent(cfg, oldClusterName, clusterName)
    /\ wpc' = "done"
    /\ UNCHANGED <<cfg0, clusterName, oldClusterName, written, discoverVars, resolveVars>>

\* lines 198-233: the same path is asked for once more, the provider returns
\* the payload it returned before, and the renaming starts over on it
RenameAgain ==
    /\ wpc = "done"
    /\ written = <<>>
    /\ written' = <<cfg>>
    /\ cfg' = cfg0
    /\ oldClusterName' = <<>>
    /\ wpc' = "pick"
    /\ UNCHANGED <<cfg0, clusterName, discoverVars, resolveVars>>

NextRename ==
    \/ PickOldName
    \/ MoveClusterEntry
    \/ MoveContextEntry
    \/ RenameCurrentContext
    \/ RenameAgain

SpecRename == InitRename /\ [][NextRename]_vars

-----------------------------------------------------------------------------
(* Properties of StartSearch *)

\* the SearchResults of a sequence that carry an error
ErrorsOf(results) == {i \in 1..Len(results) : results[i].Error # Nil}

\* how many SearchResults of a sequence carry the path p and no error
CountPath(results, p) ==
    Cardinality({i \in 1..Len(results) :
                    results[i].Error = Nil /\ results[i].KubeconfigPath = p})

\* the zones of this pass whose cluster listing succeeded, by position
HealthyZones == {i \in 1..Len(listed) : listed[i].ok}

\* the clusters the pass was given: (zone position, cluster position)
ListedClusters ==
    UNION {{<<i, k>> : k \in 1..Len(listed[i].SKSClusters)} : i \in HealthyZones}

\* the path the claim names for a listed cluster: zoneName + "/" + name
ClaimedPath(ik) ==
    zonesResp.Zones[ik[1]].Name \o <<"/">> \o listed[ik[1]].SKSClusters[ik[2]].Name

\* C1: when ListZones fails, the pass sends one event and no more, that event
\* carries an error and an empty path, no success event is sent, no cluster
\* listing is asked for, the map is left as it was, and the pass is over once
\* the event is sent.
C1_ZonesFailureIsTheOnlyEvent ==
    /\ [](~zonesResp.ok =>
            /\ listed = <<>>
            /\ dpc \in {"sendErr", "done", "crashed"}
            /\ dpc = "sendErr" => sent = <<>>
            /\ dpc = "done" =>
                /\ Len(sent) = 1
                /\ sent[1].Error # Nil
                /\ sent[1].KubeconfigPath = <<>>)
    /\ [][~zonesResp'.ok => DiscoveredClusters' = DiscoveredClusters]_vars

\* a pass on a store that already holds clusters ended on a ListZones failure
C1_Witness ==
    /\ dpc = "done"
    /\ ~zonesResp.ok
    /\ Len(sent) = 1
    /\ DOMAIN DiscoveredClusters # {}

\* C2: when ListZones succeeds, whichever zones fail their cluster listing, a
\* finished pass has asked every zone, has sent a success event for every
\* cluster of every zone whose listing succeeded, and has sent no error event.
C2_HealthyZonesAreNotBlocked ==
    (dpc = "done" /\ zonesResp.ok) =>
        /\ Len(listed) = Len(zonesResp.Zones)
        /\ \A ik \in ListedClusters : CountPath(sent, ClaimedPath(ik)) >= 1
        /\ ErrorsOf(sent) = {}

\* the first of two zones failed its listing and the second one's clusters
\* were sent
C2_Witness ==
    /\ dpc = "done"
    /\ Len(listed) = 2
    /\ ~listed[1].ok
    /\ listed[2].ok
    /\ Len(sent) = Len(listed[2].SKSClusters)
    /\ Len(sent) >= 1

\* C3: after a finished pass whose ListZones succeeded, every cluster of every
\* zone whose listing succeeded is in the map under its id, with its name and
\* its zone's name and endpoint; the success events carrying a path are as
\* many as the listed clusters with that path (one per cluster), and no other
\* success event was sent.
C3_ListedClustersAreIndexedAndSentOnce ==
    (dpc = "done" /\ zonesResp.ok) =>
        /\ \A ik \in ListedClusters :
            LET zone == zonesResp.Zones[ik[1]]
                cluster == listed[ik[1]].SKSClusters[ik[2]]
            IN  /\ cluster.ID \in DOMAIN DiscoveredClusters
                /\ DiscoveredClusters[cluster.ID] =
                       [ID |-> cluster.ID, Name |-> cluster.Name,
                        ZoneName |-> zone.Name, ZoneEndpoint |-> zone.APIEndpoint]
        /\ \A ik \in ListedClusters :
            CountPath(sent, ClaimedPath(ik)) =
                Cardinality({jl \in ListedClusters : ClaimedPath(jl) = ClaimedPath(ik)})
        /\ \A i \in 1..Len(sent) :
            sent[i].Error = Nil =>
                \E ik \in ListedClusters : ClaimedPath(ik) = sent[i].KubeconfigPath

\* a pass over two healthy zones with three clusters between them has ended
C3_Witness ==
    /\ dpc = "done"
    /\ Len(listed) = 2
    /\ listed[1].ok /\ listed[2].ok
    /\ Cardinality(ListedClusters) = 3
    /\ Len(sent) = 3
    /\ Cardinality(DOMAIN DiscoveredClusters) = 3

\* C4: a path that the most recent pass sent once resolves to the cluster that
\* produced it: the lookup of a call made after the pass stops at that
\* cluster's entry, with its id and its zone's endpoint.
C4_SentPathResolvesToItsCluster ==
    [][(/\ dpc = "done"
        /\ rpc = "scanning" /\ ~raced
        /\ rpc' = "generate"
        /\ CountPath(sent, rpath) = 1)
       => \E ik \in ListedClusters :
            /\ ClaimedPath(ik) = rpath
            /\ match'.ID = listed[ik[1]].SKSClusters[ik[2]].ID
            /\ match'.ZoneEndpoint = zonesResp.Zones[ik[1]].APIEndpoint]_vars

\* the steps StartSearch takes by itself, once it has been called
PassStep ==
    \/ ListZonesFail
    \/ SendZonesError
    \/ ListZonesEmpty
    \/ ListZonesFound
    \/ ListClustersFail
    \/ ListClustersEmpty
    \/ ListClustersFound
    \/ RecordCluster
    \/ SendPath

\* C16: a pass never waits for ever on the host: as long as it has neither
\* ended nor been ended with the process, it has a step it can take, also
\* after the host has stopped receiving from the channel.
C16_PassIsNeverStuck ==
    dpc \in {"sendErr", "zone", "insert", "send"} => ENABLED PassStep

\* the paths of the success events among a sequence of SearchResults, in the
\* order they were sent
SuccessPaths(results) ==
    LET ok == SelectSeq(results, LAMBDA r : r.Error = Nil)
    IN  [i \in 1..Len(ok) |-> ok[i].KubeconfigPath]

\* the paths of the clusters of the first n zones visited, zone by zone in the
\* order ListZones gave and, within a zone, in the order ListSKSClusters gave
RECURSIVE PathsInOrder(_)
PathsInOrder(n) ==
    IF n = 0 THEN <<>>
    ELSE PathsInOrder(n - 1) \o
         (IF listed[n].ok
          THEN [k \in 1..Len(listed[n].SKSClusters) |->
                    zonesResp.Zones[n].Name \o <<"/">> \o listed[n].SKSClusters[k].Name]
          ELSE <<>>)

\* C20: the success events of a pass are sent in the order of the zones as
\* ListZones gave them and, within a zone, of the clusters as ListSKSClusters
\* gave them: what has been sent is always the beginning of that sequence,
\* and all of it once the pass has ended.
C20_EventsFollowProviderOrder ==
    LET s == SuccessPaths(sent)
        e == PathsInOrder(Len(listed))
    IN  /\ Len(s) <= Len(e)
        /\ s = SubSeq(e, 1, Len(s))
        /\ (dpc = "done" /\ zonesResp.ok) => s = e

\* a pass over two healthy zones, the first with two clusters of different
\* names, has sent its three paths
C20_Witness ==
    /\ dpc = "done"
    /\ Len(listed) = 2
    /\ listed[1].ok /\ listed[2].ok
    /\ Len(listed[1].SKSClusters) = 2
    /\ listed[1].SKSClusters[1].Name # listed[1].SKSClusters[2].Name
    /\ Len(listed[2].SKSClusters) = 1
    /\ Len(SuccessPaths(sent)) = 3

-----------------------------------------------------------------------------
(* Properties of the renaming *)

\* every context names a cluster of the config, and a current-context that is
\* set names a context of the config
CrossReferencesHold(c) ==
    /\ \A k \in DOMAIN c.Contexts : c.Contexts[k].Cluster \in DOMAIN c.Clusters
    /\ c.CurrentContext # <<>> => c.CurrentContext \in DOMAIN c.Contexts

\* C5: a config whose cross-references hold still has them hold once renamed.
C5_RenameKeepsCrossReferences ==
    (wpc = "done" /\ CrossReferencesHold(cfg0)) => CrossReferencesHold(cfg)

\* C6: a config with one cluster entry has, once renamed, one cluster entry,
\* under the target name and with the value it had, whether or not the target
\* name is the old key.
C6_SingleClusterIsRenamed ==
    (wpc = "done" /\ Cardinality(DOMAIN cfg0.Clusters) = 1) =>
        /\ DOMAIN cfg.Clusters = {clusterName}
        /\ cfg.Clusters[clusterName] = cfg0.Clusters[oldClusterName]

\* C11: a config with no cluster entry comes out of the renaming as it went
\* in (clusters, contexts, users and current-context), whatever its
\* current-context is, the empty one included.
C11_NoClusterEntryIsLeftAlone ==
    (wpc = "done" /\ DOMAIN cfg0.Clusters = {}) => cfg = cfg0

\* C12: the renaming keeps every user entry, every cluster entry under a key
\* other than the old name and every context entry under a key other than the
\* old name, each with its key and its value, for every target name, one that
\* is already a key of the config included.
C12_RenameTouchesOnlyTheOldName ==
    wpc = "done" =>
        /\ cfg.AuthInfos = cfg0.AuthInfos
        /\ \A k \in DOMAIN cfg0.Clusters \ {oldClusterName} :
              k \in DOMAIN cfg.Clusters /\ cfg.Clusters[k] = cfg0.Clusters[k]
        /\ \A k \in DOMAIN cfg0.Contexts \ {oldClusterName} :
              k \in DOMAIN cfg.Contexts /\ cfg.Contexts[k] = cfg0.Contexts[k]

\* C13: two renamings of the same config to the same target name end with the
\* same config, also when the config has more than one cluster entry.
C13_RenameIsDeterministic ==
    (wpc = "done" /\ written # <<>>) => cfg = written[1]

-----------------------------------------------------------------------------
(* Properties of GetKubeconfigForPath *)

HasSlash(path) == \E i \in 1..Len(path) : path[i] = "/"

\* the entries of a map whose zone name + "/" + cluster name is the path
EntriesFor(idx, path) ==
    {id \in DOMAIN idx : idx[id].ZoneName \o <<"/">> \o idx[id].Name = path}

\* C7: a call whose path has no "/" returns the invalid-path error and no
\* bytes; it never enters the lookup and makes no request of the provider.
C7_PathWithoutSlashIsMalformed ==
    ~HasSlash(rpath) =>
        /\ rpc \in {"idle", "returned"}
        /\ request = NoRequest
        /\ rpc = "returned" => result = [err |-> "invalid cluster path", bytes |-> NoBytes]

\* a call with a path without "/" has returned on a store that holds clusters
C7_Witness ==
    /\ rpc = "returned"
    /\ rpath = <<"y">>
    /\ DOMAIN DiscoveredClusters # {}

\* C18: when one zone lists two clusters of the same name, the finished pass
\* leaves one entry of that zone name and cluster name in the map, and it has
\* the id of the cluster listed later.
C18_LaterClusterOfANameWins ==
    (dpc = "done" /\ zonesResp.ok) =>
        \A ik \in ListedClusters : \A jl \in ListedClusters :
            (/\ ik[1] = jl[1]
             /\ ik[2] < jl[2]
             /\ listed[ik[1]].SKSClusters[ik[2]].Name = listed[jl[1]].SKSClusters[jl[2]].Name)
            => EntriesFor(DiscoveredClusters, ClaimedPath(jl)) =
                   {listed[jl[1]].SKSClusters[jl[2]].ID}

\* how many "/" a path has
Slashes(path) == Cardinality({i \in 1..Len(path) : path[i] = "/"})

\* C19: a call whose path has more than one "/" returns the invalid-path
\* error and no bytes; it never enters the lookup and makes no request of the
\* provider.
C19_PathWithTwoSlashesIsMalformed ==
    Slashes(rpath) > 1 =>
        /\ rpc \in {"idle", "returned"}
        /\ request = NoRequest
        /\ rpc = "returned" => result = [err |-> "invalid cluster path", bytes |-> NoBytes]

\* C8: a lookup that ends while no entry of the map has the path's zone name
\* and cluster name returns the not-found error and no bytes, and a call that
\* returned not-found made no request of the provider; so does every lookup on
\* a map nothing was inserted in.
C8_UnknownPathIsNotFound ==
    /\ [][(/\ rpc = "scanning"
           /\ rpc' \notin {"scanning", "crashed"}
           /\ EntriesFor(DiscoveredClusters, rpath) = {})
          => (/\ rpc' = "returned"
              /\ result' = [err |-> "no cluster found", bytes |-> NoBytes]
              /\ request' = NoRequest)]_vars
    /\ [](result.err = "no cluster found" => request = NoRequest /\ result.bytes = NoBytes)

\* a call returned not-found for a cluster name the map holds in another zone
C8_Witness ==
    /\ rpc = "returned"
    /\ result.err = "no cluster found"
    /\ rpath = <<"z", "/", "a">>
    /\ EntriesFor(DiscoveredClusters, <<"y", "/", "a">>) # {}
    /\ EntriesFor(DiscoveredClusters, rpath) = {}

\* C9: a pass given the answers of the pass before it leaves the map as that
\* pass left it, and sends the same set of paths.
C9_RepeatedPassIsIdempotent ==
    (dpc = "done" /\ replay.on) =>
        /\ DiscoveredClusters = index0
        /\ PathsOf(sent) = replay.paths

\* a repeated pass over two zones, one of them failing, has ended
C9_Witness ==
    /\ dpc = "done"
    /\ replay.on
    /\ Len(listed) = 2
    /\ Cardinality(HealthyZones) = 1
    /\ Cardinality(PathsOf(sent)) = 2
    /\ Cardinality(DOMAIN DiscoveredClusters) = 3

\* C14: the map entry of a cluster is written before its path is sent: every
\* path the pass has sent has an entry with its zone name and cluster name in
\* the map, and a call made for a path after the pass sent it never returns
\* the not-found error.
C14_SentPathIsFound ==
    /\ [](\A p \in PathsOf(sent) : EntriesFor(DiscoveredClusters, p) # {})
    /\ [][(rpc = "scanning" /\ received /\ rpc' = "returned")
            => result'.err # "no cluster found"]_vars

\* C15: no write of the map happens while a lookup loop runs over it.
C15_NoInsertDuringALookup ==
    ~(rpc = "scanning" /\ raced)

\* the ids of the clusters this pass was given
ListedIDs == {listed[ik[1]].SKSClusters[ik[2]].ID : ik \in ListedClusters}

\* C17: the map never shrinks: no step takes an id out of it, an entry changes
\* only when the pass writes the cluster of that id, so the entry of a cluster
\* the provider no longer returns stays as it is through later passes; and a
\* lookup for the path of an entry the map holds stops at such an entry and
\* goes on to the request.
C17_MapNeverShrinks ==
    /\ [][\A id \in DOMAIN DiscoveredClusters :
            /\ id \in DOMAIN DiscoveredClusters'
            /\ DiscoveredClusters'[id] # DiscoveredClusters[id]
                  => (dpc = "insert" /\ CurCluster.ID = id)]_vars
    /\ [][(/\ rpc = "scanning" /\ ~raced
           /\ rpc' # "scanning"
           /\ EntriesFor(DiscoveredClusters, rpath) # {})
          => (/\ rpc' = "generate"
              /\ match'.ID \in EntriesFor(DiscoveredClusters, rpath)
              /\ match' = DiscoveredClusters[match'.ID])]_vars

\* a pass that listed zone y without cluster 1 has ended, the map still holds
\* cluster 1 in zone y, and a lookup has stopped at that entry
C17_Witness ==
    /\ dpc = "done"
    /\ zonesResp.ok
    /\ \E i \in HealthyZones : zonesResp.Zones[i] = ZoneY
    /\ 1 \notin ListedIDs
    /\ 1 \in DOMAIN DiscoveredClusters
    /\ rpc = "generate"
    /\ match = DiscoveredClusters[1]

\* C10: no step of GetKubeconfigForPath changes the map, whatever it returns.
C10_ResolveLeavesTheMapAlone ==
    [][<<rpc, rpath, match, request, result>>' # <<rpc, rpath, match, request, result>>
        => DiscoveredClusters' = DiscoveredClusters]_vars

\* a call has returned a kubeconfig from a store that holds clusters
C10_Witness ==
    /\ rpc = "returned"
    /\ result.err = Nil
    /\ result.bytes.fmt = "yaml"
    /\ request.ID \in DOMAIN DiscoveredClusters

=============================================================================
